---- MODULE Spec2Model ----
(***************************************************************************)
(* Model of src/src/lib/voice-activity-detector.ts: one                    *)
(* VoiceActivityDetector instance, its configuration, its run state, the   *)
(* requestAnimationFrame callbacks it has scheduled and the events it      *)
(* passes to emitEvent.                                                    *)
(*                                                                         *)
(* Units.  Times are milliseconds (Date.now()).  Energies, the voice-band  *)
(* energy, the zero-crossing rate and the two thresholds are in            *)
(* thousandths (0.02 is 20).  The threshold and the confidence are exact   *)
(* rationals <<numerator, denominator>>; a denominator of 0 stands for the *)
(* NaN that JavaScript computes for 0/0.  A measured energy or             *)
(* zero-crossing rate is never negative; NaN (below) stands for the NaN    *)
(* that the measurement of a frame of zero samples computes.               *)
(***************************************************************************)
EXTENDS Integers, Sequences, FiniteSets, TLC

VARIABLES
    config,              \* this.config
    audioContext,        \* this.audioContext is not null
    analyser,            \* this.analyser is not null
    analyserFftSize,     \* this.analyser.fftSize, 0 without an analyser
    sourceNode,          \* this.sourceNode is not null
    animationFrame,      \* this.animationFrame: "null", "live" or "stale"
    pending,             \* number of scheduled requestAnimationFrame(detect)
    onActivityCallback,  \* this.onActivityCallback is defined
    isSpeaking,
    speechStartTime,
    lastSpeechTime,
    silenceStartTime,
    energyHistory,
    clock,               \* the last value Date.now() returned
    \* ---- observation of the run (history variables) ----
    op,                  \* the operation that made the last step
    frame,               \* the frame the last step processed, if any
    emitted,             \* the events the last step passed to emitEvent
    called,              \* the last step invoked the event callback
    threw,               \* the last step raised an error
    returned,            \* what the last step returned to its caller
    arg,                 \* the argument of the last call that takes one
    lastInit,            \* how the last call of init() ended
    session              \* the frames and events of this RunState so far

runState == <<isSpeaking, speechStartTime, lastSpeechTime, silenceStartTime,
              energyHistory>>
resources == <<audioContext, analyser, analyserFftSize, sourceNode,
               animationFrame, pending, onActivityCallback>>
vars == <<config, resources, runState, clock, op, frame, emitted, called,
          threw, returned, arg, lastInit, session>>

----------------------------------------------------------------------------
(* Bounds of the model *)

MaxTime == 2
MaxStep == 1
MaxFrames == 6
LifeMaxTime == 2
LifeMaxFrames == 3
MaxPending == 2
MaxSignal == 3
MaxConfigFrames == 4
MaxChanged == 1
MaxBurstTime == 13
MaxBins == 3
MaxEndTime == 6
MaxLoopFrames == 4
MaxScoreFrames == 2

(* Program constants *)

energyHistorySize == 10
SampleRate == 16000

DEFAULT_CONFIG ==
    [energyThreshold |-> 20,
     zeroCrossingThreshold |-> 300,
     minSpeechDuration |-> 300,
     minSilenceDuration |-> 800,
     fftSize |-> 2048,
     voiceFrequencyMin |-> 85,
     voiceFrequencyMax |-> 3400]

(* Inputs *)

SpeechDurations == {0, 1}
SilenceDurations == {0, 1}
(* the partial configuration given to the constructor *)
Constructed == [minSpeechDuration |-> 1, minSilenceDuration |-> 1]
Partials == [{"minSpeechDuration"} -> SpeechDurations]
            \cup [{"minSilenceDuration"} -> SilenceDurations]
Failures == {"AudioContext", "createMediaStreamSource"}
CallbackActs == {"return", "stop", "throw"}
(* measured <<energy, voice-band energy, zero-crossing rate>> of a frame *)
Frames == {<<60, 60, 100>>, <<60, 0, 100>>}
(* the frames of the signal specification: energies from silence to the   *)
(* top of a noise ramp, a voice band that holds all or none of the energy, *)
(* a low and a high zero-crossing rate; and the frame of zero samples      *)
Energies == {0, 10, 30, 50}
ZeroCrossings == {100, 500}
SignalFrames ==
    {f \in Energies \X Energies \X ZeroCrossings : f[2] \in {0, f[1]}}
      \cup {<<>>}
SignalPartials == {[energyThreshold |-> 0]}
(* the frames and partial configurations of the configuration             *)
(* specification: a frame that has voice under the constructed             *)
(* configuration and one that has not                                      *)
ConfigFrames == {<<40, 40, 100>>, <<40, 0, 100>>}
ConfigPartials ==
    {[energyThreshold |-> 100],
     [zeroCrossingThreshold |-> 50],
     [minSpeechDuration |-> 0],
     [minSilenceDuration |-> 0],
     [voiceFrequencyMin |-> 3400],
     [voiceFrequencyMin |-> 3400, voiceFrequencyMax |-> 85],
     [fftSize |-> 1024],
     [minSpeechDuration |-> 1, minSilenceDuration |-> 1]}
(* the frames and partial configurations of the burst specification: a    *)
(* frame of speech and a frame of digital silence                          *)
BurstFrames == {<<50, 50, 100>>, <<0, 0, 100>>}
BurstPartials == {[energyThreshold |-> 0], [minSilenceDuration |-> 9]}
(* the arrays of frequency bins and the voice bands of the band           *)
(* specification: with the default fftSize a bin is 7.8125 Hz wide, so the *)
(* frequencies 0, 8, 16, 24 fall into the bins 0, 1, 2, 3 and the default  *)
(* band lies beyond the end of every array                                 *)
BinValues == {0, 51, 255}
BandData == UNION {[1..n -> BinValues] : n \in 0..MaxBins}
BandPartials ==
    {[voiceFrequencyMin |-> m] : m \in {0, 8, 16, 24, 85}}
      \cup {[voiceFrequencyMax |-> m] : m \in {8, 16, 24, 3400}}
(* the frames of the score specification: every combination of the        *)
(* measurements                                                            *)
ScoreFrames == Energies \X Energies \X ZeroCrossings
(* the values updateConfig gives minSilenceDuration in the specification   *)
(* of the end of speech                                                    *)
EndSilences == {0, 2}
NoFrame == [ran |-> FALSE]
Nothing == [none |-> TRUE]

----------------------------------------------------------------------------
(* { ...a, ...b } *)
Merge(a, b) ==
    [k \in DOMAIN a \cup DOMAIN b |-> IF k \in DOMAIN b THEN b[k] ELSE a[k]]

(* Math.sqrt(0 / 0) and 0 / 0 *)
NaN == 0 - 1
IsNaN(x) == x < 0

Max(a, b) == IF a >= b THEN a ELSE b
Min(a, b) == IF a <= b THEN a ELSE b

RECURSIVE Sum(_)
Sum(s) == IF s = <<>> THEN 0 ELSE Head(s) + Sum(Tail(s))

(* lines 120-123: push, then shift when longer than energyHistorySize *)
PushEnergy(hist, e) ==
    LET h == Append(hist, e)
    IN  IF Len(h) > energyHistorySize THEN Tail(h) ELSE h

(* a variant without the floor of energyThreshold *)
AdaptiveThreshold_NoFloor(cfg, hist) ==
    IF \E i \in DOMAIN hist : IsNaN(hist[i])
    THEN <<0, 0>>
    ELSE <<3 * Sum(hist), 2 * Len(hist)>>

(* lines 126-132: max(energyThreshold, avgEnergy * 1.5) as a rational; a   *)
(* NaN in the history makes the average, and Math.max of it, NaN           *)
AdaptiveThreshold(cfg, hist) ==
    IF \E i \in DOMAIN hist : IsNaN(hist[i])
    THEN <<0, 0>>
    ELSE <<Max(cfg.energyThreshold * 2 * Len(hist), 3 * Sum(hist)),
           2 * Len(hist)>>

(* a variant with the weights 0.3, 0.6 and 0.1 *)
Confidence_VoiceHeavy(cfg, th, e, v, z) ==
    LET zcrScore == IF ~IsNaN(z) /\ z < cfg.zeroCrossingThreshold
                    THEN 1 ELSE 0
    IN  IF th[2] = 0
        THEN <<0, 0>>
        ELSE IF th[1] = 0
        THEN IF e = 0 \/ v = 0 THEN <<0, 0>> ELSE <<3 + 6 + zcrScore, 10>>
        ELSE <<3 * Min(th[1], e * th[2]) + 6 * Min(th[1], v * th[2])
                 + zcrScore * th[1],
               10 * th[1]>>

(* lines 135-140: the confidence over the denominator 10 * threshold.      *)
(* With a threshold of 0, x / 0 is Infinity for x > 0 (the score is 1) and *)
(* NaN for x = 0; NaN propagates through Math.min and the sum.             *)
Confidence(cfg, th, e, v, z) ==
    LET zcrScore == IF ~IsNaN(z) /\ z < cfg.zeroCrossingThreshold
                    THEN 1 ELSE 0
    IN  IF th[2] = 0
        THEN <<0, 0>>
        ELSE IF th[1] = 0
        THEN IF e = 0 \/ v = 0 THEN <<0, 0>> ELSE <<4 + 5 + zcrScore, 10>>
        ELSE <<4 * Min(th[1], e * th[2]) + 5 * Min(th[1], v * th[2])
                 + zcrScore * th[1],
               10 * th[1]>>

(* a variant that counts a confidence of exactly 0.6 as voice *)
IsVoicePresent_AtLeast(conf) == conf[2] # 0 /\ 10 * conf[1] >= 6 * conf[2]

(* line 143: confidence > 0.6; a comparison with NaN is false *)
IsVoicePresent(conf) == conf[2] # 0 /\ 10 * conf[1] > 6 * conf[2]

(* The data the analyser delivers for a frame is modelled by what the      *)
(* three measurements make of it: <<energy, mean magnitude of the bins of  *)
(* the default voice band, zero-crossing rate>>, or <<>> for arrays of zero *)
(* samples.                                                                *)

(* lines 231-238: Math.sqrt(sum / data.length) *)
CalculateEnergy(f) == IF f = <<>> THEN NaN ELSE f[1]

(* lines 243-261: the mean over the bins minBin .. maxBin - 1 that the     *)
(* frame has (frequencyBinCount is half the fftSize of the analyser, line  *)
(* 107); 0 without one                                                     *)
CalculateVoiceEnergy(cfg, res, f) ==
    LET minBin == (cfg.voiceFrequencyMin * cfg.fftSize) \div SampleRate
        maxBin == (cfg.voiceFrequencyMax * cfg.fftSize) \div SampleRate
        length == IF f = <<>> THEN 0 ELSE res.fftSize \div 2
    IN  IF ~res.audioContext THEN 0
        ELSE IF minBin < maxBin /\ minBin < length THEN f[2]
        ELSE 0

(* lines 252-258: the loop over the bins from i on, with sum in units of   *)
(* 1/255                                                                   *)
RECURSIVE BandLoop(_, _, _)
BandLoop(frequencyData, i, maxBin) ==
    IF i < maxBin /\ i < Len(frequencyData)
    THEN LET rest == BandLoop(frequencyData, i + 1, maxBin)
         IN  [sum |-> frequencyData[i + 1] + rest.sum,
              count |-> rest.count + 1]
    ELSE [sum |-> 0, count |-> 0]

(* a variant that divides by the count without testing it *)
VoiceEnergyOfBins_NoGuard(cfg, res, frequencyData) ==
    LET minBin == (cfg.voiceFrequencyMin * cfg.fftSize) \div SampleRate
        maxBin == (cfg.voiceFrequencyMax * cfg.fftSize) \div SampleRate
        acc == BandLoop(frequencyData, minBin, maxBin)
    IN  IF ~res.audioContext THEN <<0, 1>>
        ELSE <<acc.sum, 255 * acc.count>>

(* lines 243-261 on the bins themselves: the result as the rational        *)
(* r[1] / r[2], for frequencies of 0 Hz and above                          *)
VoiceEnergyOfBins(cfg, res, frequencyData) ==
    LET minBin == (cfg.voiceFrequencyMin * cfg.fftSize) \div SampleRate
        maxBin == (cfg.voiceFrequencyMax * cfg.fftSize) \div SampleRate
        acc == BandLoop(frequencyData, minBin, maxBin)
    IN  IF ~res.audioContext THEN <<0, 1>>
        ELSE IF acc.count > 0 THEN <<acc.sum, 255 * acc.count>>
        ELSE <<0, 1>>

(* lines 266-277: crossings / data.length *)
CalculateZeroCrossingRate(f) == IF f = <<>> THEN NaN ELSE f[3]

Event(type, now, e, conf) ==
    [type |-> type, timestamp |-> now, energy |-> e, confidence |-> conf]

(* a variant that records the time only while speaking *)
MarkSpeech_WhileSpeaking(rs, now) ==
    IF rs.isSpeaking THEN [rs EXCEPT !.lastSpeechTime = now] ELSE rs

(* line 147: every voice-present frame records its time *)
MarkSpeech(rs, now) == [rs EXCEPT !.lastSpeechTime = now]

(* a variant that confirms the start without setting isSpeaking *)
PotentialSpeechStart_NoFlag(rs, cfg, now, e, conf) ==
    IF rs.speechStartTime = 0
    THEN [rs |-> [rs EXCEPT !.speechStartTime = now], events |-> <<>>]
    ELSE IF now - rs.speechStartTime >= cfg.minSpeechDuration
    THEN [rs |-> [rs EXCEPT !.silenceStartTime = 0],
          events |-> <<Event("speech_start", now, e, conf)>>]
    ELSE [rs |-> rs, events |-> <<>>]

(* a variant that compares with > instead of >= *)
PotentialSpeechStart_Strict(rs, cfg, now, e, conf) ==
    IF rs.speechStartTime = 0
    THEN [rs |-> [rs EXCEPT !.speechStartTime = now], events |-> <<>>]
    ELSE IF now - rs.speechStartTime > cfg.minSpeechDuration
    THEN [rs |-> [rs EXCEPT !.isSpeaking = TRUE, !.silenceStartTime = 0],
          events |-> <<Event("speech_start", now, e, conf)>>]
    ELSE [rs |-> rs, events |-> <<>>]

(* lines 149-166: voice present, not speaking *)
PotentialSpeechStart(rs, cfg, now, e, conf) ==
    IF rs.speechStartTime = 0
    THEN [rs |-> [rs EXCEPT !.speechStartTime = now], events |-> <<>>]
    ELSE IF now - rs.speechStartTime >= cfg.minSpeechDuration
    THEN [rs |-> [rs EXCEPT !.isSpeaking = TRUE, !.silenceStartTime = 0],
          events |-> <<Event("speech_start", now, e, conf)>>]
    ELSE [rs |-> rs, events |-> <<>>]

(* a variant that emits nothing for a frame of ongoing speech *)
OngoingSpeech_Silent(rs, cfg, now, e, conf) ==
    [rs |-> rs, events |-> <<>>]

(* lines 167-175: voice present, speaking *)
OngoingSpeech(rs, cfg, now, e, conf) ==
    [rs |-> rs, events |-> <<Event("speech_active", now, e, conf)>>]

(* a variant that stays speaking after the end *)
PotentialSpeechEnd_StaysSpeaking(rs, cfg, now, e, conf) ==
    IF rs.silenceStartTime = 0
    THEN [rs |-> [rs EXCEPT !.silenceStartTime = now], events |-> <<>>]
    ELSE IF now - rs.silenceStartTime >= cfg.minSilenceDuration
    THEN [rs |-> [rs EXCEPT !.speechStartTime = 0,
                            !.silenceStartTime = 0],
          events |-> <<Merge(Event("speech_end", now, e, conf),
                             [duration |-> now - rs.lastSpeechTime
                                           + cfg.minSilenceDuration])>>]
    ELSE [rs |-> rs, events |-> <<>>]

(* a variant that restarts the silence timer on every frame of a dip *)
PotentialSpeechEnd_Restarts(rs, cfg, now, e, conf) ==
    IF rs.silenceStartTime = 0
    THEN [rs |-> [rs EXCEPT !.silenceStartTime = now], events |-> <<>>]
    ELSE IF now - rs.silenceStartTime >= cfg.minSilenceDuration
    THEN [rs |-> [rs EXCEPT !.isSpeaking = FALSE,
                            !.speechStartTime = 0,
                            !.silenceStartTime = 0],
          events |-> <<Merge(Event("speech_end", now, e, conf),
                             [duration |-> now - rs.lastSpeechTime
                                           + cfg.minSilenceDuration])>>]
    ELSE [rs |-> [rs EXCEPT !.silenceStartTime = now], events |-> <<>>]

(* a variant that leaves the silence timer running after the end *)
PotentialSpeechEnd_KeepsTimer(rs, cfg, now, e, conf) ==
    IF rs.silenceStartTime = 0
    THEN [rs |-> [rs EXCEPT !.silenceStartTime = now], events |-> <<>>]
    ELSE IF now - rs.silenceStartTime >= cfg.minSilenceDuration
    THEN [rs |-> [rs EXCEPT !.isSpeaking = FALSE,
                            !.speechStartTime = 0],
          events |-> <<Merge(Event("speech_end", now, e, conf),
                             [duration |-> now - rs.lastSpeechTime
                                           + cfg.minSilenceDuration])>>]
    ELSE [rs |-> rs, events |-> <<>>]

(* a variant that compares with > instead of >= *)
PotentialSpeechEnd_Strict(rs, cfg, now, e, conf) ==
    IF rs.silenceStartTime = 0
    THEN [rs |-> [rs EXCEPT !.silenceStartTime = now], events |-> <<>>]
    ELSE IF now - rs.silenceStartTime > cfg.minSilenceDuration
    THEN [rs |-> [rs EXCEPT !.isSpeaking = FALSE,
                            !.speechStartTime = 0,
                            !.silenceStartTime = 0],
          events |-> <<Merge(Event("speech_end", now, e, conf),
                             [duration |-> now - rs.lastSpeechTime
                                           + cfg.minSilenceDuration])>>]
    ELSE [rs |-> rs, events |-> <<>>]

(* lines 178-200: voice absent, speaking *)
PotentialSpeechEnd(rs, cfg, now, e, conf) ==
    IF rs.silenceStartTime = 0
    THEN [rs |-> [rs EXCEPT !.silenceStartTime = now], events |-> <<>>]
    ELSE IF now - rs.silenceStartTime >= cfg.minSilenceDuration
    THEN [rs |-> [rs EXCEPT !.isSpeaking = FALSE,
                            !.speechStartTime = 0,
                            !.silenceStartTime = 0],
          events |-> <<Merge(Event("speech_end", now, e, conf),
                             [duration |-> now - rs.lastSpeechTime
                                           + cfg.minSilenceDuration])>>]
    ELSE [rs |-> rs, events |-> <<>>]

(* a variant with the comparison of the noise test inverted *)
NoSpeech_Inverted(rs, cfg, now, e, conf) ==
    [rs |-> IF rs.speechStartTime # 0
               /\ now - rs.speechStartTime < cfg.minSpeechDuration
            THEN [rs EXCEPT !.speechStartTime = 0]
            ELSE rs,
     events |-> IF ~IsNaN(e) /\ 2 * e < cfg.energyThreshold
                THEN <<Event("noise", now, e, conf)>>
                ELSE <<>>]

(* a variant whose noise test is >= *)
NoSpeech_AtLeast(rs, cfg, now, e, conf) ==
    [rs |-> IF rs.speechStartTime # 0
               /\ now - rs.speechStartTime < cfg.minSpeechDuration
            THEN [rs EXCEPT !.speechStartTime = 0]
            ELSE rs,
     events |-> IF ~IsNaN(e) /\ 2 * e >= cfg.energyThreshold
                THEN <<Event("noise", now, e, conf)>>
                ELSE <<>>]

(* lines 201-219: voice absent, not speaking *)
NoSpeech(rs, cfg, now, e, conf) ==
    [rs |-> IF rs.speechStartTime # 0
               /\ now - rs.speechStartTime < cfg.minSpeechDuration
            THEN [rs EXCEPT !.speechStartTime = 0]
            ELSE rs,
     events |-> IF ~IsNaN(e) /\ 2 * e > cfg.energyThreshold
                THEN <<Event("noise", now, e, conf)>>
                ELSE <<>>]

(* lines 104-220 of detect: the frame read at time now with the measured   *)
(* energy e, voice-band energy v and zero-crossing rate z, applied to the  *)
(* run state rs.  The result is the new run state and the events handed to *)
(* emitEvent (at most one, always as the last statement of its branch).    *)
ProcessFrame(rs, cfg, now, e, v, z) ==
    LET hist == PushEnergy(rs.energyHistory, e)
        th == AdaptiveThreshold(cfg, hist)
        conf == Confidence(cfg, th, e, v, z)
        voice == IsVoicePresent(conf)
        r0 == [rs EXCEPT !.energyHistory = hist]
        out == IF voice
               THEN IF ~r0.isSpeaking
                    THEN PotentialSpeechStart(MarkSpeech(r0, now), cfg, now,
                                              e, conf)
                    ELSE OngoingSpeech(MarkSpeech(r0, now), cfg, now, e, conf)
               ELSE IF r0.isSpeaking
                    THEN PotentialSpeechEnd(r0, cfg, now, e, conf)
                    ELSE NoSpeech(r0, cfg, now, e, conf)
    IN  [rs |-> out.rs, events |-> out.events, voice |-> voice, conf |-> conf,
         threshold |-> th, energy |-> e, voiceEnergy |-> v,
         zeroCrossingRate |-> z]

----------------------------------------------------------------------------
(* The fields as records, so that stop() can run inside the callback.      *)

RunStateRec ==
    [isSpeaking |-> isSpeaking, speechStartTime |-> speechStartTime,
     lastSpeechTime |-> lastSpeechTime, silenceStartTime |-> silenceStartTime,
     energyHistory |-> energyHistory]

ResourceRec ==
    [audioContext |-> audioContext, analyser |-> analyser,
     fftSize |-> analyserFftSize,
     sourceNode |-> sourceNode, animationFrame |-> animationFrame,
     pending |-> pending]

(* lines 316-324: the references stop() calls a method on *)
StopCalls(res) ==
    {r \in {"sourceNode", "audioContext"} : res[r]}

(* lines 311-326: cancel the scheduled frame, release the resources *)
StopResources(res) ==
    [audioContext |-> FALSE, analyser |-> FALSE, fftSize |-> 0,
     sourceNode |-> FALSE, animationFrame |-> "null",
     pending |-> IF res.animationFrame = "live"
                 THEN res.pending - 1 ELSE res.pending]

(* a variant that leaves isSpeaking alone *)
StopRunState_KeepsSpeaking(rs) ==
    [rs EXCEPT !.speechStartTime = 0, !.lastSpeechTime = 0,
               !.silenceStartTime = 0]

(* lines 327-330: the fields stop() resets *)
StopRunState(rs) ==
    [rs EXCEPT !.isSpeaking = FALSE, !.speechStartTime = 0,
               !.lastSpeechTime = 0, !.silenceStartTime = 0]

(* a variant that measures the time since the start of the speech *)
GetStateResult_SinceStart(rs, now) ==
    [isSpeaking |-> rs.isSpeaking, lastSpeechTime |-> rs.lastSpeechTime,
     timeSinceLastSpeech |-> now - rs.speechStartTime]

(* lines 291-297 *)
GetStateResult(rs, now) ==
    [isSpeaking |-> rs.isSpeaking, lastSpeechTime |-> rs.lastSpeechTime,
     timeSinceLastSpeech |-> now - rs.lastSpeechTime]

(* a variant without the check *)
DetectGuard_Always(res) == TRUE

(* line 102: detect returns at once when the analyser is gone *)
DetectGuard(res) == res.analyser

----------------------------------------------------------------------------
(* Observation.  The session is what an observer of the frames and events  *)
(* of one RunState has seen; a stop() closes it and the next frame opens a *)
(* new one.                                                                *)
(*   run    the current run of consecutive frames of one kind ("voice" or  *)
(*          "absent"): the time of its first frame, its length (up to 2),  *)
(*          window: the debounce window configured at its first frame      *)
(*          (minSpeechDuration for voice, minSilenceDuration for absent),  *)
(*          short: the window stayed the same and every frame of the run   *)
(*          came less than the window after the first,                     *)
(*          speaking: isSpeaking when its first frame arrived              *)
(*   prev   the run before the current one                                 *)
(*   lastVoiceTime  the time of the last voice-present frame               *)
(*   openStart      a speech_start was emitted and no speech_end since     *)
(*   step   the step input: "pre" while no frame had voice, "step" from    *)
(*          the first voice-present frame (at t0) while every frame has    *)
(*          voice, "broken" afterwards.  A frame of the step at time now   *)
(*          is due when now - t0 >= minSpeechDuration.  rank (rankAll) is  *)
(*          0 while no frame after t0 (no frame from t0 on) was due, 1 on  *)
(*          the first such frame that is due and 2 on the frames after it. *)
(*   steady every frame so far was processed with the default              *)
(*          energyThreshold                                                *)

NoRun == [kind |-> "none", start |-> 0, len |-> 0, window |-> 0,
          short |-> FALSE, speaking |-> FALSE]

NewSession ==
    [closed |-> FALSE, run |-> NoRun, prev |-> NoRun, lastVoiceTime |-> 0,
     openStart |-> FALSE,
     step |-> [kind |-> "pre", t0 |-> 0, rank |-> 0, rankAll |-> 0],
     steady |-> TRUE]

Types(events) == {events[i].type : i \in DOMAIN events}

Rank(r, due) == IF r > 0 THEN 2 ELSE IF due THEN 1 ELSE 0

ObserveStep(st, cfg, now, voice) ==
    IF st.kind = "pre" /\ voice
    THEN [kind |-> "step", t0 |-> now, rank |-> 0,
          rankAll |-> Rank(0, 0 >= cfg.minSpeechDuration)]
    ELSE IF st.kind = "pre"
    THEN st
    ELSE IF st.kind = "step" /\ voice
    THEN [st EXCEPT
            !.rank = Rank(@, now - st.t0 >= cfg.minSpeechDuration),
            !.rankAll = Rank(@, now - st.t0 >= cfg.minSpeechDuration)]
    ELSE [kind |-> "broken", t0 |-> 0, rank |-> 0, rankAll |-> 0]

ObserveRun(run, cfg, now, voice, speaking) ==
    LET kind == IF voice THEN "voice" ELSE "absent"
        window == IF voice THEN cfg.minSpeechDuration
                  ELSE cfg.minSilenceDuration
    IN  IF run.kind = kind
        THEN [run EXCEPT !.len = Min(2, @ + 1),
                         !.short = @ /\ window = run.window
                                     /\ now - run.start < window]
        ELSE [kind |-> kind, start |-> now, len |-> 1, window |-> window,
              short |-> 0 < window, speaking |-> speaking]

Observe(ses, speaking, cfg, now, voice, events) ==
    LET s0 == IF ses.closed THEN NewSession ELSE ses
        kind == IF voice THEN "voice" ELSE "absent"
    IN  [closed |-> FALSE,
         run |-> ObserveRun(s0.run, cfg, now, voice, speaking),
         prev |-> IF s0.run.kind = kind THEN s0.prev
                  ELSE [s0.run EXCEPT !.start = 0, !.len = 0],
         lastVoiceTime |-> IF voice THEN now ELSE s0.lastVoiceTime,
         openStart |-> IF "speech_start" \in Types(events) THEN TRUE
                       ELSE IF "speech_end" \in Types(events) THEN FALSE
                       ELSE s0.openStart,
         step |-> ObserveStep(s0.step, cfg, now, voice),
         steady |-> s0.steady
                    /\ cfg.energyThreshold = DEFAULT_CONFIG.energyThreshold]

FreshRunState ==
    [isSpeaking |-> FALSE, speechStartTime |-> 0, lastSpeechTime |-> 0,
     silenceStartTime |-> 0, energyHistory |-> <<>>]

(* The frame a step processed: whether voice was present, whether the run  *)
(* state it was applied to was fresh, isSpeaking after it (before the      *)
(* callback ran), whether the callback called stop(), whether it raised an *)
(* error, whether the frame had no samples, whether the call before it was *)
(* updateConfig, and the measurements, the threshold and the confidence    *)
(* computed for it.                                                        *)
FrameRec(rs, f, out, cb) ==
    [ran |-> TRUE, voice |-> out.voice, fresh |-> (rs = FreshRunState),
     speaking |-> out.rs.isSpeaking, stopped |-> (cb = "stop"),
     raised |-> (cb = "throw"),
     empty |-> (f = <<>>), configured |-> (op = "updateConfig"),
     energy |-> out.energy, voiceEnergy |-> out.voiceEnergy,
     zeroCrossingRate |-> out.zeroCrossingRate,
     threshold |-> out.threshold, confidence |-> out.conf]

(* the event callback raises nothing in this step *)
CallbackReturns == frame'.ran => ~frame'.raised

(* The observer follows the frames; stop() closes the session. *)
Watch ==
    session' =
      IF frame'.ran
      THEN [Observe(session, isSpeaking, config, clock', frame'.voice,
                    emitted')
              EXCEPT !.closed = frame'.stopped]
      ELSE IF op' \in {"stop", "stop again"}
      THEN [NewSession EXCEPT !.closed = TRUE]
      ELSE session

----------------------------------------------------------------------------
(* Actions *)

SetRunState(rs) ==
    /\ isSpeaking' = rs.isSpeaking
    /\ speechStartTime' = rs.speechStartTime
    /\ lastSpeechTime' = rs.lastSpeechTime
    /\ silenceStartTime' = rs.silenceStartTime
    /\ energyHistory' = rs.energyHistory

SetResources(res) ==
    /\ audioContext' = res.audioContext
    /\ analyser' = res.analyser
    /\ analyserFftSize' = res.fftSize
    /\ sourceNode' = res.sourceNode
    /\ animationFrame' = res.animationFrame
    /\ pending' = res.pending

(* A step that processes no frame and emits nothing *)
Quiet ==
    /\ frame' = NoFrame
    /\ emitted' = <<>>
    /\ called' = FALSE
    /\ arg' = Nothing

(* line 222: this.animationFrame = requestAnimationFrame(detect) *)
Schedule(res) ==
    [res EXCEPT !.animationFrame = "live", !.pending = res.pending + 1]

(* lines 282-286: emitEvent invokes the callback when one is set *)
Invokes(events, cbDefined) == events # <<>> /\ cbDefined

(* lines 104-222: one iteration of detect that passed the guard of line    *)
(* 102, run with the resources res and the callback cbDefined on the frame *)
(* f read dt after the last reading of the clock.  The callback, when      *)
(* emitEvent invokes it, returns, calls stop() or raises an error; the     *)
(* iteration then schedules the next one, unless the error, which nothing  *)
(* catches (lines 282-286), has ended it before line 222.                  *)
Iterate(res, cbDefined, dt, f) ==
    LET now == clock + dt
        out == ProcessFrame(RunStateRec, config, now, CalculateEnergy(f),
                            CalculateVoiceEnergy(config, res, f),
                            CalculateZeroCrossingRate(f))
        invoked == Invokes(out.events, cbDefined)
    IN  /\ clock' = now
        /\ emitted' = out.events
        /\ called' = invoked
        /\ returned' = Nothing
        /\ arg' = Nothing
        /\ UNCHANGED config
        /\ \E cb \in IF invoked THEN CallbackActs ELSE {"return"} :
             /\ frame' = FrameRec(RunStateRec, f, out, cb)
             /\ IF cb = "stop"
                THEN /\ SetRunState(StopRunState(out.rs))
                     /\ SetResources(Schedule(StopResources(res)))
                     /\ threw' = (\E r \in StopCalls(res) : ~res[r])
                ELSE IF cb = "throw"
                THEN /\ SetRunState(out.rs)
                     /\ SetResources(res)
                     /\ threw' = TRUE
                ELSE /\ SetRunState(out.rs)
                     /\ SetResources(Schedule(res))
                     /\ threw' = FALSE

(* lines 70-95: init(stream, onActivity).  fail names the constructor or   *)
(* call that raises; "none": init runs the first iteration of detect       *)
(* synchronously (line 225) and fails with the error of that iteration, if *)
(* the callback raises one.                                                *)
Init_(cbDefined, fail, dt, f) ==
    /\ op' = "init"
    /\ onActivityCallback' = cbDefined
    /\ IF fail = "none"
       THEN Iterate([ResourceRec EXCEPT !.audioContext = TRUE,
                                        !.analyser = TRUE,
                                        !.fftSize = config.fftSize,
                                        !.sourceNode = TRUE],
                    cbDefined, dt, f)
       ELSE /\ SetResources(
                 [ResourceRec EXCEPT
                    !.audioContext = (fail # "AudioContext") \/ @,
                    !.analyser = (fail = "createMediaStreamSource") \/ @,
                    !.fftSize = IF fail = "createMediaStreamSource"
                                THEN config.fftSize ELSE @])
            /\ threw' = TRUE
            /\ returned' = Nothing
            /\ Quiet
            /\ UNCHANGED <<config, runState, clock>>
    /\ lastInit' = IF threw' THEN "failed" ELSE "ok"

(* lines 101-223: a scheduled requestAnimationFrame callback fires; own:   *)
(* it is the one this.animationFrame refers to.                            *)
Detect(own, dt, f) ==
    /\ pending > 0
    /\ IF own THEN animationFrame = "live"
       ELSE pending > (IF animationFrame = "live" THEN 1 ELSE 0)
    /\ op' = "detect"
    /\ UNCHANGED <<onActivityCallback, lastInit>>
    /\ LET res == [ResourceRec EXCEPT
                     !.pending = @ - 1,
                     !.animationFrame = IF own THEN "stale" ELSE @]
       IN  IF DetectGuard(res)
           THEN Iterate(res, onActivityCallback, dt, f)
           ELSE /\ SetResources(res)
                /\ threw' = FALSE
                /\ returned' = Nothing
                /\ Quiet
                /\ UNCHANGED <<config, runState, clock>>

(* lines 310-333: stop() *)
Stop ==
    /\ op' = IF op \in {"stop", "stop again"} THEN "stop again" ELSE "stop"
    /\ SetResources(StopResources(ResourceRec))
    /\ SetRunState(StopRunState(RunStateRec))
    /\ threw' = (\E r \in StopCalls(ResourceRec) : ~ResourceRec[r])
    /\ returned' = Nothing
    /\ Quiet
    /\ UNCHANGED <<config, onActivityCallback, clock, lastInit>>

(* a variant that also restarts the run state *)
UpdateConfig_Restart(partial) ==
    /\ op' = "updateConfig"
    /\ config' = Merge(config, partial)
    /\ arg' = partial
    /\ threw' = FALSE
    /\ returned' = Nothing
    /\ frame' = NoFrame
    /\ emitted' = <<>>
    /\ called' = FALSE
    /\ SetRunState(StopRunState(RunStateRec))
    /\ UNCHANGED <<resources, clock, lastInit>>

(* lines 302-305: updateConfig(partial) *)
UpdateConfig(partial) ==
    /\ op' = "updateConfig"
    /\ config' = Merge(config, partial)
    /\ arg' = partial
    /\ threw' = FALSE
    /\ returned' = Nothing
    /\ frame' = NoFrame
    /\ emitted' = <<>>
    /\ called' = FALSE
    /\ UNCHANGED <<resources, runState, clock, lastInit>>

(* lines 291-297: getState() *)
GetState(dt) ==
    /\ op' = "getState"
    /\ clock' = clock + dt
    /\ returned' = GetStateResult(RunStateRec, clock + dt)
    /\ threw' = FALSE
    /\ Quiet
    /\ UNCHANGED <<config, resources, runState, lastInit>>

(* line 116: the call of calculateVoiceEnergy that an iteration of detect  *)
(* makes once it has passed the guard of line 102, taken on its own on the *)
(* array frequencyData                                                     *)
CalculateVoiceEnergyCall(frequencyData) ==
    /\ analyser
    /\ op' = "calculateVoiceEnergy"
    /\ arg' = [frequencyData |-> frequencyData]
    /\ returned' = VoiceEnergyOfBins(config, ResourceRec, frequencyData)
    /\ threw' = FALSE
    /\ frame' = NoFrame
    /\ emitted' = <<>>
    /\ called' = FALSE
    /\ UNCHANGED <<config, resources, runState, clock, lastInit>>

(* lines 63-65: the constructor, and the field initialisers of lines 47-61 *)
Init ==
    /\ config = Merge(DEFAULT_CONFIG, Constructed)
    /\ audioContext = FALSE
    /\ analyser = FALSE
    /\ analyserFftSize = 0
    /\ sourceNode = FALSE
    /\ animationFrame = "null"
    /\ pending = 0
    /\ onActivityCallback = FALSE
    /\ isSpeaking = FALSE
    /\ speechStartTime = 0
    /\ lastSpeechTime = 0
    /\ silenceStartTime = 0
    /\ energyHistory = <<>>
    /\ clock = 1
    /\ op = "constructor"
    /\ frame = NoFrame
    /\ emitted = <<>>
    /\ called = FALSE
    /\ threw = FALSE
    /\ returned = Nothing
    /\ arg = Nothing
    /\ lastInit = "none"
    /\ session = NewSession

(* The whole interface, on short sessions *)

LifeBounds ==
    /\ CallbackReturns
    /\ clock' <= LifeMaxTime
    /\ Len(energyHistory') <= LifeMaxFrames
    /\ pending' <= MaxPending
    /\ UNCHANGED session

CallInit ==
    /\ \E cbDefined \in BOOLEAN, dt \in 0..MaxStep, f \in Frames :
          Init_(cbDefined, "none", dt, f)
    /\ LifeBounds

CallInitFailing ==
    /\ \E cbDefined \in BOOLEAN, fail \in Failures :
          Init_(cbDefined, fail, 0, <<>>)
    /\ LifeBounds

FrameCallback ==
    /\ \E own \in BOOLEAN, dt \in 0..MaxStep, f \in Frames :
          Detect(own, dt, f)
    /\ LifeBounds

CallStop == Stop /\ LifeBounds

CallUpdateConfig ==
    /\ \E partial \in Partials : UpdateConfig(partial)
    /\ LifeBounds

CallGetState ==
    /\ \E dt \in 0..1 : GetState(dt)
    /\ LifeBounds

Next ==
    \/ CallInit
    \/ CallInitFailing
    \/ FrameCallback
    \/ CallStop
    \/ CallUpdateConfig
    \/ CallGetState

Spec == Init /\ [][Next]_vars

(* One poll loop at a time, on longer sessions, with the observer *)

SessionBounds ==
    /\ CallbackReturns
    /\ clock' <= MaxTime
    /\ Len(energyHistory') <= MaxFrames
    /\ pending' <= 1
    /\ Watch

SessionInit ==
    /\ pending = 0
    /\ \E dt \in 0..MaxStep, f \in Frames : Init_(TRUE, "none", dt, f)
    /\ SessionBounds

SessionFrame ==
    /\ \E dt \in 0..MaxStep, f \in Frames : Detect(TRUE, dt, f)
    /\ SessionBounds

SessionStop == Stop /\ SessionBounds

SessionUpdateConfig ==
    /\ \E partial \in Partials : UpdateConfig(partial)
    /\ SessionBounds

SessionNext ==
    \/ SessionInit
    \/ SessionFrame
    \/ SessionStop
    \/ SessionUpdateConfig

SessionSpec == Init /\ [][SessionNext]_vars

(* One poll loop on the frames of the signal specification, each read one  *)
(* millisecond after the one before                                        *)

Listen ==
    session' =
      IF frame'.ran
      THEN [session EXCEPT
              !.steady = @ /\ config.energyThreshold
                                = DEFAULT_CONFIG.energyThreshold]
      ELSE session

SignalBounds ==
    /\ CallbackReturns
    /\ Len(energyHistory') <= MaxSignal
    /\ pending' <= 1
    /\ Listen

SignalInit ==
    /\ pending = 0
    /\ \E f \in SignalFrames : Init_(TRUE, "none", 1, f)
    /\ SignalBounds

SignalFrame ==
    /\ \E f \in SignalFrames : Detect(TRUE, 1, f)
    /\ SignalBounds

SignalUpdateConfig ==
    /\ \E partial \in SignalPartials : UpdateConfig(partial)
    /\ SignalBounds

SignalNext ==
    \/ SignalInit
    \/ SignalFrame
    \/ SignalUpdateConfig

SignalSpec == Init /\ [][SignalNext]_vars

(* One poll loop with every field of the configuration open to            *)
(* updateConfig                                                            *)

Changed(cfg) ==
    Cardinality({k \in DOMAIN cfg :
                   cfg[k] # Merge(DEFAULT_CONFIG, Constructed)[k]})

ConfigBounds ==
    /\ CallbackReturns
    /\ clock' <= MaxTime
    /\ Len(energyHistory') <= MaxConfigFrames
    /\ pending' <= 1
    /\ Changed(config') <= MaxChanged
    /\ UNCHANGED session

ConfigInit ==
    /\ pending = 0
    /\ \E dt \in 0..MaxStep, f \in ConfigFrames : Init_(TRUE, "none", dt, f)
    /\ ConfigBounds

ConfigFrame ==
    /\ \E dt \in 0..MaxStep, f \in ConfigFrames : Detect(TRUE, dt, f)
    /\ ConfigBounds

ConfigUpdateConfig ==
    /\ \E partial \in ConfigPartials : UpdateConfig(partial)
    /\ ConfigBounds

ConfigNext ==
    \/ ConfigInit
    \/ ConfigFrame
    \/ ConfigUpdateConfig

ConfigSpec == Init /\ [][ConfigNext]_vars

(* One poll loop on a burst of speech followed by digital silence, the     *)
(* frames one millisecond apart: long enough for the silence to fill the   *)
(* energy history                                                          *)

BurstFrame(f) ==
    f \in BurstFrames
      /\ (f[1] = 0 \/ \A i \in DOMAIN energyHistory : energyHistory[i] # 0)

BurstBounds ==
    /\ CallbackReturns
    /\ clock' <= MaxBurstTime
    /\ pending' <= 1
    /\ UNCHANGED session

BurstInit ==
    /\ pending = 0
    /\ \E f \in BurstFrames : BurstFrame(f) /\ Init_(TRUE, "none", 1, f)
    /\ BurstBounds

BurstDetect ==
    /\ \E f \in BurstFrames : BurstFrame(f) /\ Detect(TRUE, 1, f)
    /\ BurstBounds

BurstUpdateConfig ==
    /\ \E partial \in BurstPartials : UpdateConfig(partial)
    /\ BurstBounds

BurstNext ==
    \/ BurstInit
    \/ BurstDetect
    \/ BurstUpdateConfig

BurstSpec == Init /\ [][BurstNext]_vars

(* One poll loop on frames with every combination of the measurements,    *)
(* read one millisecond apart                                              *)

ScoreBounds ==
    /\ CallbackReturns
    /\ Len(energyHistory') <= MaxScoreFrames
    /\ pending' <= 1
    /\ UNCHANGED session

ScoreInit ==
    /\ pending = 0
    /\ \E f \in ScoreFrames : Init_(TRUE, "none", 1, f)
    /\ ScoreBounds

ScoreFrame ==
    /\ \E f \in ScoreFrames : Detect(TRUE, 1, f)
    /\ ScoreBounds

ScoreUpdateConfig ==
    /\ \E partial \in SignalPartials : UpdateConfig(partial)
    /\ ScoreBounds

ScoreNext ==
    \/ ScoreInit
    \/ ScoreFrame
    \/ ScoreUpdateConfig

ScoreSpec == Init /\ [][ScoreNext]_vars

(* One poll loop whose event callback may raise an error                   *)

LoopBounds ==
    /\ clock' <= MaxTime
    /\ Len(energyHistory') <= MaxLoopFrames
    /\ pending' <= 1
    /\ UNCHANGED session

LoopInit ==
    /\ pending = 0
    /\ \E dt \in 0..MaxStep, f \in Frames : Init_(TRUE, "none", dt, f)
    /\ LoopBounds

LoopFrame ==
    /\ \E dt \in 0..MaxStep, f \in Frames : Detect(TRUE, dt, f)
    /\ LoopBounds

LoopStop == Stop /\ LoopBounds

LoopNext ==
    \/ LoopInit
    \/ LoopFrame
    \/ LoopStop

LoopSpec == Init /\ [][LoopNext]_vars

(* The measurement of the voice band on arrays of bins, under the voice    *)
(* bands updateConfig can set                                              *)

BandBounds ==
    /\ CallbackReturns
    /\ Len(energyHistory') <= 1
    /\ pending' <= 1
    /\ UNCHANGED session

BandInit ==
    /\ pending = 0
    /\ \E f \in ConfigFrames : Init_(TRUE, "none", 1, f)
    /\ BandBounds

BandUpdateConfig ==
    /\ \E partial \in BandPartials : UpdateConfig(partial)
    /\ BandBounds

BandMeasure ==
    /\ \E frequencyData \in BandData :
          CalculateVoiceEnergyCall(frequencyData)
    /\ BandBounds

BandNext ==
    \/ BandInit
    \/ BandUpdateConfig
    \/ BandMeasure

BandSpec == Init /\ [][BandNext]_vars

(* One poll loop whose frames are read one millisecond apart, under the    *)
(* silence durations of EndSilences.  requestAnimationFrame runs every     *)
(* callback it has scheduled, so the iteration that is scheduled is taken  *)
(* (weak fairness), up to the time bound of the model.                     *)

EndBounds ==
    /\ CallbackReturns
    /\ clock' <= MaxEndTime
    /\ pending' <= 1
    /\ UNCHANGED session

EndInit ==
    /\ pending = 0
    /\ \E f \in Frames : Init_(TRUE, "none", 1, f)
    /\ EndBounds

EndFrame ==
    /\ \E f \in Frames : Detect(TRUE, 1, f)
    /\ EndBounds

EndUpdateConfig ==
    /\ \E d \in EndSilences : UpdateConfig([minSilenceDuration |-> d])
    /\ EndBounds

EndNext ==
    \/ EndInit
    \/ EndFrame
    \/ EndUpdateConfig

(* EndFrame can be taken: an iteration is scheduled and, when it passes    *)
(* the guard of line 102, the time of its frame is within the time bound   *)
EndFrameEnabled ==
    /\ pending > 0
    /\ animationFrame = "live"
    /\ analyser => clock < MaxEndTime

(* WF_vars(EndFrame), with ENABLED <<EndFrame>>_vars written out *)
EndFairness ==
    []<>(~EndFrameEnabled) \/ []<><<EndFrame>>_vars

EndSpec == Init /\ [][EndNext]_vars /\ EndFairness

----------------------------------------------------------------------------
(* Properties *)

Emitted(type) == type \in Types(emitted)

(* C1: within one RunState, a speech_start is never emitted while an       *)
(* earlier speech_start of the same RunState has had no speech_end.        *)
C1_NoDoubleStart ==
    [][Emitted("speech_start")'
         => ~(session.openStart /\ ~session.closed)]_vars

(* a second speech_start of a session, after the speech_end of the first *)
C1_Witness ==
    /\ Emitted("speech_start")
    /\ session.prev.kind = "absent"
    /\ session.prev.speaking

(* C2, as claimed: on the frames of a step input, speech_start is emitted  *)
(* on the first frame from t0 on with now - t0 >= minSpeechDuration and on *)
(* no other.                                                               *)
C2_Original ==
    frame.ran /\ session.step.kind = "step"
      => (Emitted("speech_start") <=> session.step.rankAll = 1)

(* C2, amended: speech_start is emitted on the first frame after the one   *)
(* at t0 with now - t0 >= minSpeechDuration; the frames before it emit     *)
(* nothing and the frames after it emit speech_active.                     *)
C2_StepStartsOnce ==
    frame.ran /\ session.step.kind = "step"
      => /\ session.step.rank = 0 => emitted = <<>>
         /\ session.step.rank = 1
              => Types(emitted) = {"speech_start"} /\ Len(emitted) = 1
         /\ session.step.rank = 2
              => Types(emitted) = {"speech_active"} /\ Len(emitted) = 1

(* a frame of a step input after the one that confirmed the start, with a  *)
(* positive minSpeechDuration                                              *)
C2_Witness ==
    /\ frame.ran
    /\ session.step.kind = "step"
    /\ session.step.rank = 2
    /\ session.run.window > 0
    /\ session.run.short = FALSE

(* C3: while not speaking, once a run of voice-present frames that spanned *)
(* less than minSpeechDuration is followed by a voice-absent frame,        *)
(* speechStartTime is 0 again.                                             *)
C3_FlickerResetsTimer ==
    /\ frame.ran /\ ~frame.voice /\ ~frame.speaking
    /\ session.prev.kind = "voice"
    /\ ~session.prev.speaking
    /\ session.prev.short
    /\ session.prev.window = config.minSpeechDuration
    => speechStartTime = 0

(* C4: a run of voice-absent frames that began while speaking and spans    *)
(* less than minSilenceDuration emits nothing and leaves isSpeaking true,  *)
(* and the voice-present frame after it emits speech_active, not           *)
(* speech_start.                                                           *)
C4_ShortDipKeepsSpeaking ==
    /\ /\ frame.ran /\ ~frame.voice
       /\ session.run.speaking
       /\ session.run.short
       /\ session.run.window = config.minSilenceDuration
       => emitted = <<>> /\ frame.speaking
    /\ /\ frame.ran /\ frame.voice
       /\ session.run.len = 1
       /\ session.prev.kind = "absent"
       /\ session.prev.speaking
       /\ session.prev.short
       /\ session.prev.window = config.minSilenceDuration
       => Types(emitted) = {"speech_active"} /\ frame.speaking

(* C5: a speech_end is emitted only by a frame that ends a run of          *)
(* voice-absent frames which began at least minSilenceDuration earlier.    *)
C5_EndAfterContinuousSilence ==
    Emitted("speech_end")
      => /\ session.run.kind = "absent"
         /\ clock - session.run.start >= config.minSilenceDuration

(* C6: a speech_start is emitted only by a frame that ends a run of at     *)
(* least two voice-present frames which began at least minSpeechDuration   *)
(* earlier.                                                                *)
C6_StartAfterContinuousVoice ==
    Emitted("speech_start")
      => /\ session.run.kind = "voice"
         /\ session.run.len >= 2
         /\ clock - session.run.start >= config.minSpeechDuration

(* C7: the duration of a speech_end is the time from the last              *)
(* voice-present frame to the confirming frame plus the                    *)
(* minSilenceDuration configured at the confirming frame.                  *)
C7_Duration ==
    \A i \in DOMAIN emitted :
      emitted[i].type = "speech_end"
        => /\ session.lastVoiceTime > 0
           /\ emitted[i].duration
                = clock - session.lastVoiceTime + config.minSilenceDuration

(* a speech_end whose confirming frame came after the last voice *)
C7_Witness ==
    /\ Emitted("speech_end")
    /\ clock > session.lastVoiceTime
    /\ config.minSilenceDuration > 0

(* C8: while the analyser is released (stop() has returned and init() has  *)
(* not been called since), a step processes no frame, leaves the run state *)
(* alone, invokes no callback and raises nothing; a repeated stop() also   *)
(* leaves the resources and the callback alone; and when stop() is called  *)
(* by the callback the rest of the iteration leaves the run state as       *)
(* stop() reset it.                                                        *)
C8_StoppedIsInert ==
    [][/\ ~analyser /\ op' # "init"
          => /\ runState' = runState
             /\ ~frame'.ran /\ ~called' /\ ~threw'
       /\ op' = "stop again"
          => /\ <<audioContext, analyser, sourceNode>>'
                  = <<audioContext, analyser, sourceNode>>
             /\ onActivityCallback' = onActivityCallback
       /\ frame'.ran /\ frame'.stopped
          => /\ ~isSpeaking' /\ speechStartTime' = 0
             /\ lastSpeechTime' = 0 /\ silenceStartTime' = 0
             /\ Len(emitted') = 1]_vars

(* an iteration left scheduled by a stop() inside the callback has fired   *)
(* and returned                                                            *)
C8_Witness ==
    /\ op = "detect"
    /\ ~frame.ran
    /\ ~analyser
    /\ energyHistory # <<>>

(* C9: stop(), whenever called, raises no error and leaves                 *)
(* getState().isSpeaking false.                                            *)
C9_StopIsSafe ==
    op \in {"stop", "stop again"} \/ (frame.ran /\ frame.stopped)
      => /\ ~threw
         /\ ~GetStateResult(RunStateRec, clock).isSpeaking

(* stop() called twice in a row after frames were processed *)
C9_Witness ==
    /\ op = "stop again"
    /\ energyHistory # <<>>

(* C10: the first frame processed by an init() is applied to a fresh       *)
(* RunState.                                                               *)
C10_InitIsFresh ==
    op = "init" /\ frame.ran => frame.fresh

(* a frame that ends a stream of frames of energy 0 and voice-band energy  *)
(* 0 (the energy history holds every frame of the stream)                  *)
SilentStream ==
    /\ frame.ran
    /\ frame.energy = 0
    /\ frame.voiceEnergy = 0
    /\ \A i \in DOMAIN energyHistory : energyHistory[i] = 0

(* C11: on every frame of an all-silence stream, whatever its              *)
(* zero-crossing rate, voice is not present, no speech_start and no noise  *)
(* event is emitted, and under a configuration with energyThreshold > 0    *)
(* the confidence is a number not greater than 0.6.                        *)
C11_SilenceIsQuiet ==
    SilentStream
      => /\ ~frame.voice
         /\ ~Emitted("speech_start")
         /\ ~Emitted("noise")
         /\ config.energyThreshold > 0
              => /\ frame.confidence[2] # 0
                 /\ 10 * frame.confidence[1] <= 6 * frame.confidence[2]

(* the third frame of an all-silence stream, with a low zero-crossing rate *)
(* (the confidence is 0.1)                                                 *)
C11_Witness ==
    /\ SilentStream
    /\ Len(energyHistory) >= 3
    /\ frame.zeroCrossingRate < config.zeroCrossingThreshold
    /\ config.energyThreshold > 0
    /\ frame.confidence[1] > 0

(* the energies of a stream that ramps from 0.01 to 0.05 and stays there,  *)
(* or of the beginning of one                                              *)
Ramp(hist) ==
    /\ hist # <<>>
    /\ hist[1] = 10
    /\ \A i \in DOMAIN hist : 10 <= hist[i] /\ hist[i] <= 50
    /\ \A i \in 1..(Len(hist) - 1) :
          hist[i] < hist[i + 1] \/ (hist[i] = 50 /\ hist[i + 1] = 50)

(* C12: on every frame of a noise ramp processed with energyThreshold =    *)
(* 0.02 (the voice-band energy of a frame is never above its energy), the  *)
(* adaptive threshold is above 0.05 when 1.5 times the mean of the history *)
(* is, and no speech_start is emitted.                                     *)
C12_RampSuppressed ==
    frame.ran /\ session.steady /\ Ramp(energyHistory)
      => /\ 3 * Sum(energyHistory) > 50 * 2 * Len(energyHistory)
              => frame.threshold[1] > 50 * frame.threshold[2]
         /\ ~Emitted("speech_start")

(* C13: from a failed init() until the next init() that succeeds, the      *)
(* event callback is not invoked.                                          *)
C13_FailedInitIsInert ==
    lastInit = "failed" => ~called

(* the invariant of the Configuration: the voice band is not empty and     *)
(* lies below the Nyquist frequency of the source, the thresholds are in   *)
(* (0, 1] and the durations are not negative                               *)
ValidConfig(cfg) ==
    /\ cfg.voiceFrequencyMin < cfg.voiceFrequencyMax
    /\ 2 * cfg.voiceFrequencyMax <= SampleRate
    /\ 0 < cfg.energyThreshold /\ cfg.energyThreshold <= 1000
    /\ 0 < cfg.zeroCrossingThreshold /\ cfg.zeroCrossingThreshold <= 1000
    /\ cfg.minSpeechDuration >= 0
    /\ cfg.minSilenceDuration >= 0

(* C14: an updateConfig whose merged configuration is invalid leaves the   *)
(* configuration as it was.                                                *)
C14_InvalidConfigRejected ==
    [][op' = "updateConfig" /\ ~ValidConfig(Merge(config, arg'))
         => config' = config]_vars

(* C15: updateConfig(partial) sets the fields partial names, leaves the    *)
(* other fields and the run state alone, and the frame processed next is   *)
(* judged with the merged energyThreshold, zeroCrossingThreshold,          *)
(* minSpeechDuration and minSilenceDuration.                               *)
C15_UpdateConfigMerges ==
    [][/\ op' = "updateConfig"
          => /\ DOMAIN config' = DOMAIN config
             /\ \A k \in DOMAIN config :
                   config'[k] = IF k \in DOMAIN arg' THEN arg'[k]
                                ELSE config[k]
             /\ runState' = runState
       /\ op = "updateConfig" /\ frame'.ran /\ ~frame'.empty
          => LET th == frame'.threshold
                 n == Len(energyHistory) + 1
                 total == Sum(energyHistory) + frame'.energy
             IN  /\ th = <<Max(config.energyThreshold * 2 * n, 3 * total),
                            2 * n>>
                 /\ frame'.confidence[1]
                      = 4 * Min(th[1], frame'.energy * th[2])
                        + 5 * Min(th[1], frame'.voiceEnergy * th[2])
                        + (IF frame'.zeroCrossingRate
                                < config.zeroCrossingThreshold
                           THEN th[1] ELSE 0)
                 /\ Emitted("speech_start")'
                      <=> /\ frame'.voice /\ ~isSpeaking
                          /\ speechStartTime # 0
                          /\ clock' - speechStartTime
                               >= config.minSpeechDuration
                 /\ Emitted("speech_end")'
                      <=> /\ ~frame'.voice /\ isSpeaking
                          /\ silenceStartTime # 0
                          /\ clock' - silenceStartTime
                               >= config.minSilenceDuration]_vars

(* a frame with energy in the voice band that had voice under the          *)
(* constructed configuration and has none under the one merged by the      *)
(* call before it                                                          *)
C15_Witness ==
    /\ frame.ran
    /\ frame.configured
    /\ frame.voiceEnergy > 0
    /\ ~frame.voice

(* C16: getState() leaves the run state, the configuration and the         *)
(* resources (the scheduled callbacks among them) alone and returns        *)
(* isSpeaking, lastSpeechTime and the time of the call minus               *)
(* lastSpeechTime.                                                         *)
C16_GetStateReadsOnly ==
    [][op' = "getState"
         => /\ runState' = runState
            /\ config' = config
            /\ resources' = resources
            /\ ~called' /\ ~threw'
            /\ returned' = [isSpeaking |-> isSpeaking,
                            lastSpeechTime |-> lastSpeechTime,
                            timeSinceLastSpeech |-> clock' - lastSpeechTime]
       ]_vars

(* getState() called some time after a frame with voice, while the poll    *)
(* loop is running                                                         *)
C16_Witness ==
    /\ op = "getState"
    /\ lastSpeechTime # 0
    /\ returned.timeSinceLastSpeech > 0
    /\ pending > 0

(* C17: a frame of zero samples raises nothing and is measured as energy   *)
(* 0, voice-band energy 0 and zero-crossing rate 0, and the events of its  *)
(* step carry a number as energy and as confidence.                        *)
C17_EmptyFrameIsZero ==
    frame.ran /\ frame.empty
      => /\ ~threw
         /\ frame.energy = 0
         /\ frame.voiceEnergy = 0
         /\ frame.zeroCrossingRate = 0
         /\ \A i \in DOMAIN emitted :
               /\ ~IsNaN(emitted[i].energy)
               /\ emitted[i].confidence[2] # 0

(* C18: the confidence of every emitted event is a number in [0, 1].       *)
C18_ConfidenceInRange ==
    \A i \in DOMAIN emitted :
      /\ emitted[i].confidence[2] # 0
      /\ 0 <= emitted[i].confidence[1]
      /\ emitted[i].confidence[1] <= emitted[i].confidence[2]

(* C19: while speaking, the silence timer runs only while the frames are   *)
(* voice-absent: in a state with isSpeaking and silenceStartTime # 0 the   *)
(* last frame processed was voice-absent.                                  *)
C19_SilenceTimerIsReset ==
    isSpeaking /\ silenceStartTime # 0 => session.run.kind = "absent"

(* C20: while not speaking, the speech timer runs only while the frames    *)
(* are voice-present: in a state with ~isSpeaking and speechStartTime # 0  *)
(* the last frame processed was voice-present.                             *)
C20_SpeechTimerIsReset ==
    ~isSpeaking /\ speechStartTime # 0 => session.run.kind = "voice"

(* C21: the machine never counts toward a start and an end at once: while  *)
(* isSpeaking is false, silenceStartTime is 0.                             *)
C21_OneDebounceAtATime ==
    ~isSpeaking => silenceStartTime = 0

(* a start is being counted again after a speech that has ended *)
C21_Witness ==
    /\ ~isSpeaking
    /\ speechStartTime # 0
    /\ frame.ran /\ frame.voice
    /\ session.prev.kind = "absent"
    /\ session.prev.speaking
    /\ ~session.openStart

(* C22: lastSpeechTime is written only by a voice-present frame processed  *)
(* while isSpeaking is true, and reset by stop(); a voice-present frame    *)
(* in Silence or PendingSpeech leaves it unchanged.                        *)
C22_LastSpeechIsConfirmed ==
    [][lastSpeechTime' # lastSpeechTime
         => \/ frame'.ran /\ frame'.voice /\ isSpeaking
            \/ lastSpeechTime' = 0 /\ (op' = "stop" \/ frame'.stopped)]_vars

(* C23: the history already holds the energy of the frame when the         *)
(* threshold is computed; the threshold equals the larger of               *)
(* energyThreshold and 1.5 times the mean of the history, and is never     *)
(* below energyThreshold. (Energies are in thousandths; the threshold is   *)
(* th[1] / th[2] thousandths.)                                             *)
C23_AdaptiveThreshold ==
    [][frame'.ran
         => LET hist == energyHistory'
                n == Len(hist)
                th == frame'.threshold
            IN  /\ n > 0
                /\ hist[n] = frame'.energy
                /\ IF \E i \in 1..n : IsNaN(hist[i])
                   THEN th[2] = 0
                   ELSE /\ th[2] > 0
                        /\ th[1] * 2 * n
                             = th[2] * Max(config.energyThreshold * 2 * n,
                                           3 * Sum(hist))
                        /\ th[1] >= config.energyThreshold * th[2]]_vars

(* a threshold above energyThreshold, from the mean of unequal energies *)
C23_Witness ==
    /\ frame.ran
    /\ Len(energyHistory) >= 2
    /\ energyHistory[1] # energyHistory[2]
    /\ frame.threshold[2] > 0
    /\ frame.threshold[1] > config.energyThreshold * frame.threshold[2]

(* C24: after a frame, energyHistory has at most energyHistorySize entries *)
(* and holds the energies of the most recent frames of the session in      *)
(* arrival order: the first frame after init() leaves just its own energy, *)
(* every later frame appends its energy and, past energyHistorySize        *)
(* entries, evicts the oldest.                                             *)
C24_HistoryIsSessionWindow ==
    [][frame'.ran
         => /\ Len(energyHistory') <= energyHistorySize
            /\ energyHistory'
                 = IF op' = "init"
                   THEN <<frame'.energy>>
                   ELSE LET h == Append(energyHistory, frame'.energy)
                            k == Min(Len(h), energyHistorySize)
                        IN  SubSeq(h, Len(h) - k + 1, Len(h))]_vars

(* C25: the confidence is 0.4 * min(1, energy / threshold)                 *)
(* + 0.5 * min(1, voiceEnergy / threshold) + 0.1 when the zero-crossing    *)
(* rate is strictly below zeroCrossingThreshold, and voice is present      *)
(* exactly when the confidence is strictly above 0.6. (The confidence is   *)
(* c[1] / c[2]; the equation is stated for a positive threshold.)          *)
C25_ConfidenceAndVoice ==
    [][frame'.ran
         => LET th == frame'.threshold
                e == frame'.energy
                v == frame'.voiceEnergy
                z == frame'.zeroCrossingRate
                c == frame'.confidence
            IN  /\ ~frame'.empty /\ th[1] > 0
                   => /\ c[2] > 0
                      /\ c[1] * 10 * th[1]
                           = c[2] * (4 * Min(th[1], e * th[2])
                                     + 5 * Min(th[1], v * th[2])
                                     + (IF z < config.zeroCrossingThreshold
                                        THEN th[1] ELSE 0))
                /\ frame'.voice <=> c[2] # 0 /\ 10 * c[1] > 6 * c[2]]_vars

(* a frame with a confidence of exactly 0.6, which is no voice *)
C25_Witness ==
    /\ frame.ran
    /\ frame.confidence[2] # 0
    /\ 10 * frame.confidence[1] = 6 * frame.confidence[2]
    /\ ~frame.voice

(* C26: a frame emits noise exactly when isSpeaking is false, voice is     *)
(* absent and the energy is strictly above half of energyThreshold; the    *)
(* emission changes none of isSpeaking, silenceStartTime and               *)
(* lastSpeechTime, and speechStartTime changes only by the flicker reset.  *)
C26_NoiseIsAdvisory ==
    [][frame'.ran
         => /\ Emitted("noise")'
                 <=> /\ ~isSpeaking
                     /\ ~frame'.voice
                     /\ ~frame'.empty
                     /\ 2 * frame'.energy > config.energyThreshold
            /\ Emitted("noise")' /\ ~frame'.stopped
                 => /\ Len(emitted') = 1
                    /\ isSpeaking' = isSpeaking
                    /\ silenceStartTime' = silenceStartTime
                    /\ lastSpeechTime' = lastSpeechTime
                    /\ speechStartTime' # speechStartTime
                         => /\ speechStartTime' = 0
                            /\ clock' - speechStartTime
                                 < config.minSpeechDuration]_vars

(* a noise event during a start debounce, with both timestamps kept *)
C26_Witness ==
    /\ Emitted("noise")
    /\ ~frame.stopped
    /\ lastSpeechTime # 0
    /\ speechStartTime # 0

(* C27: a voice-present frame processed while isSpeaking is true emits     *)
(* exactly one speech_active and sets lastSpeechTime to the time of the    *)
(* frame; the frame that confirms speech_start emits speech_start and no   *)
(* speech_active.                                                          *)
C27_ActiveWhileSpeaking ==
    [][frame'.ran /\ frame'.voice
         => /\ isSpeaking
                 => /\ Len(emitted') = 1
                    /\ emitted'[1].type = "speech_active"
                    /\ emitted'[1].timestamp = clock'
                    /\ ~frame'.stopped => lastSpeechTime' = clock'
            /\ ~isSpeaking /\ frame'.speaking
                 => /\ Len(emitted') = 1
                    /\ emitted'[1].type = "speech_start"]_vars

(* a speech_active after the start, with lastSpeechTime at its time *)
C27_Witness ==
    /\ Emitted("speech_active")
    /\ isSpeaking
    /\ lastSpeechTime = clock
    /\ speechStartTime < clock
    /\ silenceStartTime = 0

(* C28: the debounce compares timestamps and counts no frames: with the    *)
(* speech timer set, the next voice-present frame at or after              *)
(* speechStartTime + minSpeechDuration confirms speech_start, and with the *)
(* silence timer set, the next voice-absent frame at or after              *)
(* silenceStartTime + minSilenceDuration confirms speech_end.              *)
C28_DebounceByClock ==
    [][frame'.ran
         => /\ /\ frame'.voice /\ ~isSpeaking
               /\ speechStartTime # 0
               /\ clock' - speechStartTime >= config.minSpeechDuration
               => Emitted("speech_start")' /\ frame'.speaking
            /\ /\ ~frame'.voice /\ isSpeaking
               /\ silenceStartTime # 0
               /\ clock' - silenceStartTime >= config.minSilenceDuration
               => Emitted("speech_end")' /\ ~frame'.speaking]_vars

(* a speech_start on the second frame of the detector, a full              *)
(* minSpeechDuration after the first one and with no frame in between      *)
C28_Witness ==
    /\ Emitted("speech_start")
    /\ Len(energyHistory) = 2
    /\ config.minSpeechDuration > 0
    /\ clock - speechStartTime >= config.minSpeechDuration

(* C29: in every reachable state the configuration satisfies               *)
(* voiceFrequencyMin < voiceFrequencyMax <= sampleRate / 2.                *)
C29_VoiceBandIsValid ==
    /\ config.voiceFrequencyMin < config.voiceFrequencyMax
    /\ 2 * config.voiceFrequencyMax <= SampleRate

(* C30: the voice-band energy is the mean of bin / 255 over the bins i     *)
(* with floor(voiceFrequencyMin / binHz) <= i < floor(voiceFrequencyMax /  *)
(* binHz) and i below the length of the array, binHz being sampleRate /    *)
(* fftSize; it lies in [0, 1] and is 0 whenever no bin is in that range.   *)
C30_VoiceBandMean ==
    op = "calculateVoiceEnergy"
      => LET data == arg.frequencyData
             lo == (config.voiceFrequencyMin * config.fftSize)
                     \div SampleRate
             hi == (config.voiceFrequencyMax * config.fftSize)
                     \div SampleRate
             band == {i \in 0..(Len(data) - 1) : lo <= i /\ i < hi}
             total == Sum([i \in 1..Len(data)
                             |-> IF i - 1 \in band THEN data[i] ELSE 0])
             r == returned
         IN  /\ r[2] > 0
             /\ 0 <= r[1] /\ r[1] <= r[2]
             /\ IF band = {}
                THEN r[1] = 0
                ELSE r[1] * 255 * Cardinality(band) = total * r[2]

(* a mean strictly between 0 and 1 over a band that starts above bin 0 and *)
(* that the end of the array cuts off                                      *)
C30_Witness ==
    /\ op = "calculateVoiceEnergy"
    /\ config.voiceFrequencyMin > 0
    /\ (config.voiceFrequencyMax * config.fftSize) \div SampleRate
         > Len(arg.frequencyData)
    /\ returned[2] > 255
    /\ 0 < returned[1] /\ returned[1] < returned[2]

(* C31: at most one poll loop is live: while the analyser is set, so that  *)
(* a scheduled iteration of detect passes its guard and schedules the      *)
(* next, at most one iteration is scheduled.                               *)
C31_OneLoop ==
    analyser => pending <= 1

(* C32: within one session the events follow the grammar                   *)
(* (noise* speech_start speech_active* speech_end)*: speech_active and     *)
(* speech_end are emitted only while a speech_start of the session has had *)
(* no speech_end, noise and speech_start only while none has.              *)
C32_EventGrammar ==
    [][frame'.ran
         => LET open == session.openStart /\ ~session.closed
            IN  \A i \in DOMAIN emitted' :
                  /\ emitted'[i].type \in {"speech_active", "speech_end"}
                       => open
                  /\ emitted'[i].type \in {"noise", "speech_start"}
                       => ~open]_vars

(* a noise event after the speech_end of the session, in the same run of   *)
(* voice-absent frames                                                     *)
C32_Witness ==
    /\ Emitted("noise")
    /\ session.run.kind = "absent"
    /\ session.run.speaking
    /\ ~session.openStart

(* C33: the end of speech is live.  From a voice-absent frame processed    *)
(* while speaking, with frames read at strictly advancing times, either a  *)
(* later frame has voice or a speech_end is emitted and isSpeaking becomes *)
(* false.  (Stated for the states that leave the time of the longest       *)
(* silence duration before the time bound of the model.)                   *)
C33_EndIsLive ==
    (/\ isSpeaking
     /\ frame.ran /\ ~frame.voice
     /\ \A d \in EndSilences : clock + d <= MaxEndTime)
      ~> (\/ Emitted("speech_end") /\ ~isSpeaking
          \/ frame.ran /\ frame.voice)

(* a speech_end under the longest silence duration *)
C33_Witness ==
    /\ Emitted("speech_end")
    /\ ~isSpeaking
    /\ \A d \in EndSilences : config.minSilenceDuration >= d

(* C34: the poll loop runs until stop(): after an iteration that has       *)
(* processed a frame, and unless stop() was called, the next iteration is  *)
(* scheduled, also when the event callback raised an error.                *)
C34_LoopKeepsRunning ==
    frame.ran /\ analyser => pending > 0 /\ animationFrame = "live"

(* C35: the fftSize that maps voiceFrequencyMin and voiceFrequencyMax to   *)
(* bins when a scheduled iteration measures a frame is the fftSize of the  *)
(* analyser that produced the frame.                                       *)
C35_FftSizeMatchesAnalyser ==
    [][frame'.ran /\ op' = "detect"
         => config.fftSize = analyserFftSize]_vars

(* C36: no single measurement makes voice present.  A frame with a         *)
(* voice-band energy of 0 is voice-absent whatever its energy and          *)
(* zero-crossing rate, with a confidence of at most 0.5; a frame with an   *)
(* energy of 0 is voice-absent whatever its voice-band energy and          *)
(* zero-crossing rate, with a confidence of at most 0.6.  (The confidence  *)
(* is c[1] / c[2]; the two limits are stated where it is a number.)        *)
C36_NoSingleMeasurement ==
    frame.ran /\ ~frame.empty
      => LET c == frame.confidence
         IN  /\ frame.voiceEnergy = 0
                  => /\ ~frame.voice
                     /\ c[2] # 0 => 10 * c[1] <= 5 * c[2]
             /\ frame.energy = 0
                  => /\ ~frame.voice
                     /\ c[2] # 0 => 10 * c[1] <= 6 * c[2]

(* a frame of energy 0 whose voice-band energy and zero-crossing rate have *)
(* their full scores: a confidence of exactly 0.6, and no voice            *)
C36_Witness ==
    /\ frame.ran
    /\ frame.energy = 0
    /\ frame.voiceEnergy > 0
    /\ frame.confidence[2] # 0
    /\ 10 * frame.confidence[1] = 6 * frame.confidence[2]
    /\ ~frame.voice

(* C37: a frame passes at most one event to the callback, and a            *)
(* confirmation needs two frames: the first voice-present frame of a       *)
(* session emits no speech_start, and the first voice-absent frame after a *)
(* voice-present one, while speaking, emits no speech_end.                 *)
C37_ConfirmationNeedsTwoFrames ==
    [][frame'.ran
         => /\ Len(emitted') <= 1
            /\ /\ frame'.voice
               /\ session.closed \/ session.step.kind = "pre"
               => ~Emitted("speech_start")'
            /\ /\ ~frame'.voice
               /\ isSpeaking
               /\ ~session.closed /\ session.run.kind = "voice"
               => ~Emitted("speech_end")']_vars

====
